---- MODULE Spec2Model ----
(***************************************************************************)
(* Model of examples/osgterrain/osgterrain.cpp: the MasterOperation that   *)
(* polls a master file on an operation thread (the "worker"), loads the    *)
(* newly listed files, has them compiled by the compile contexts' graphics *)
(* threads and hands the change set to the main loop, which merges it in   *)
(* MasterOperation::update().  FilterHandler::handle, which shares no      *)
(* state with it, has a specification of its own, SpecFilterHandler.       *)
(*                                                                         *)
(* Filenames are the integers 1..NumFiles (std::set and std::map iterate   *)
(* in key order, which is the integer order here).  A node is an integer   *)
(* that tells the file it was read from; at most MaxNodes nodes exist at a *)
(* time.                                                                   *)
(***************************************************************************)
EXTENDS Integers, Sequences, FiniteSets, Bags, TLC

NumFiles == 2
MaxNodes == 2
MaxContexts == 1
MaxEdits == 1
MaxFilterSteps == 2

Filenames == 1..NumFiles
NodeIds == 1..(NumFiles * MaxNodes)
Contexts == 1..MaxContexts

\* GeometryTechnique::FilterType, the event types and the keys looked at:
\* the seven keys of handle() and one other key
FilterTypes == {"GAUSSIAN", "SMOOTH", "SHARPEN"}
EventTypes == {"KEYDOWN", "KEYUP", "PUSH"}
Keys == {"g", "s", "S", "+", "-", ">", "<", "x"}
\* the filter width counted in factors of 1.1 and the filter bias in steps of
\* 0.1 from the values the technique starts with
FilterSteps == (0 - MaxFilterSteps)..MaxFilterSteps

\* scene->addChild(terrain.get()), line 688: the one child that is no model file
TerrainNode == 0
\* the BarrierOperation in a graphics thread's queue; a positive entry n is
\* the GLObjectsOperation compiling node n
BarrierOp == 0

VARIABLES
    master,        \* the filenames the master file lists at this moment
    masterOpens,   \* whether std::ifstream fin(_filename) opens
    edits,         \* number of edits of the master file so far
    createBackgroundThreadsForCompiling,   \* --bt
    mpc,           \* position of main()
    scene,         \* children of the scene group: a bag, their order left out
    _existingFilenameNodeMap,
    _nodesToRemove,
    _nodesToAdd,
    _mutex,        \* "free", "worker" or "main"
    _updatesMergedBlock,   \* OpenThreads::Block::_released
    _barrier,      \* the ref_ptr: "null" or "valid"
    barrierSize,   \* participants of the BarrierOperation last created
    barrierCnt,    \* participants that have arrived at it
    started,       \* operationThread->startThread() and add() have been called
    done,          \* OperationThread::_done
    wpc,           \* position of the worker in operator()
    files, newFiles, removedFiles, nodesToAdd,   \* locals of operator()
    threads, requiresBarrier, requiresBlock, toLoad,
    gtCreated,     \* contexts whose compile context has a graphics thread
    gtQueue,       \* per context, the operation queue of its graphics thread
    gtInBarrier,   \* graphics threads waiting inside the barrier
    compiled,      \* <<context, node>>: the thread has run the compile operation of
                   \* the node, which this poll loaded (history)
    retry,         \* the new files of the last poll, if it ended without a hand-off (history)
    _gt,           \* FilterHandler::_gt, the observer_ptr, is valid
    filterMatrix, filterWidth, filterBias,   \* of the GeometryTechnique
    ea,            \* the event handle() was last called with
    handled        \* what that call returned

programVars == <<master, masterOpens, edits, createBackgroundThreadsForCompiling, mpc,
          scene, _existingFilenameNodeMap, _nodesToRemove, _nodesToAdd, _mutex,
          _updatesMergedBlock, _barrier, barrierSize, barrierCnt, started, done,
          wpc, files, newFiles, removedFiles, nodesToAdd, threads,
          requiresBarrier, requiresBlock, toLoad, gtCreated, gtQueue,
          gtInBarrier, compiled, retry>>

filterVars == <<_gt, filterMatrix, filterWidth, filterBias, ea, handled>>

vars == <<programVars, filterVars>>

envVars == <<master, masterOpens, edits, createBackgroundThreadsForCompiling>>
sharedVars == <<_existingFilenameNodeMap, _nodesToRemove, _nodesToAdd>>
localVars == <<files, newFiles, removedFiles, nodesToAdd, threads,
               requiresBarrier, requiresBlock, toLoad>>
barrierVars == <<_barrier, barrierSize, barrierCnt>>
gtVars == <<gtCreated, gtQueue, gtInBarrier, compiled>>

----------------------------------------------------------------------------
\* Helpers

EmptyMap == [f \in {} |-> 0]

Min(S) == CHOOSE x \in S : \A y \in S : x <= y

Range(m) == {m[k] : k \in DOMAIN m}

SeqRange(s) == {s[i] : i \in 1..Len(s)}

\* FilenameNodeMap::operator[] assignment: m[f] = n
MapPut(m, f, n) == [k \in (DOMAIN m) \cup {f} |-> IF k = f THEN n ELSE m[k]]

\* FilenameNodeMap::erase
MapErase(m, f) == [k \in (DOMAIN m) \ {f} |-> m[k]]

\* osg::Group::addChild adds the child once more
addChild(children, n) == children (+) SetToBag({n})

\* osg::Group::removeChild removes one occurrence of the child, if any
removeChild(children, n) == children (-) SetToBag({n})

\* readMasterFile: files receives every "file <name>" entry; nothing when the
\* stream does not open
readMasterFile == IF masterOpens THEN master ELSE {}

\* nodes some ref_ptr or the scene still references
NodesInUse ==
    BagToSet(scene) \cup Range(_existingFilenameNodeMap) \cup Range(_nodesToAdd)
    \cup Range(nodesToAdd)
    \cup UNION {SeqRange(gtQueue[c]) : c \in Contexts}

\* the filename a node was read from
nodeFile(n) == ((n - 1) \div MaxNodes) + 1

\* osgDB::readNodeFile(f) returning a model: a node of f that is none of inUse
readNodeFile(f, inUse) ==
    (f - 1) * MaxNodes + Min({k \in 1..MaxNodes : (f - 1) * MaxNodes + k \notin inUse})

\* a load can give a new node: fewer than MaxNodes nodes exist
CanLoad == Cardinality(NodesInUse \cap NodeIds) < MaxNodes

\* the process has not been killed by a null dereference
Alive == wpc # "crashed"

----------------------------------------------------------------------------
\* the state after the construction of the MasterOperation and of the scene
InitProgram ==
    /\ masterOpens \in BOOLEAN
    /\ master \in (IF masterOpens THEN SUBSET Filenames ELSE {{}})
    /\ edits = 0
    /\ createBackgroundThreadsForCompiling \in BOOLEAN
    /\ mpc = "open"
    /\ scene \in {EmptyBag, SetToBag({TerrainNode})}
    /\ _existingFilenameNodeMap = EmptyMap
    /\ _nodesToRemove = {}
    /\ _nodesToAdd = EmptyMap
    /\ _mutex = "free"
    /\ _updatesMergedBlock = FALSE
    /\ _barrier = "null"
    /\ barrierSize = 0
    /\ barrierCnt = 0
    /\ started = FALSE
    /\ done = FALSE
    /\ wpc = "idle"
    /\ files = {}
    /\ newFiles = {}
    /\ removedFiles = {}
    /\ nodesToAdd = EmptyMap
    /\ threads = {}
    /\ requiresBarrier = FALSE
    /\ requiresBlock = FALSE
    /\ toLoad = {}
    /\ gtCreated = {}
    /\ gtQueue = [c \in Contexts |-> <<>>]
    /\ gtInBarrier = {}
    /\ compiled = {}
    /\ retry = {}

\* no event yet
NoEvent == [type |-> "NONE", key |-> "none"]

\* the FilterHandler of line 692 and the technique it observes, as
\* constructed
InitFilterHandler ==
    /\ _gt = TRUE
    /\ filterMatrix = "GAUSSIAN"
    /\ filterWidth = 0
    /\ filterBias = 0
    /\ ea = NoEvent
    /\ handled = FALSE

Init == InitProgram /\ InitFilterHandler

----------------------------------------------------------------------------
\* main()

\* openLoop binding the filename of a failed load too
RECURSIVE openLoop_bindsFailed(_, _, _)
openLoop_bindsFailed(rest, ok, acc) ==
    IF rest = {} THEN acc
    ELSE LET f == Min(rest)
             model == readNodeFile(f, Range(acc.map))
         IN  IF f \in ok
             THEN openLoop_bindsFailed(rest \ {f}, ok,
                                       [scene |-> addChild(acc.scene, model),
                                        map |-> MapPut(acc.map, f, model)])
             ELSE openLoop_bindsFailed(rest \ {f}, ok,
                                       [scene |-> acc.scene,
                                        map |-> MapPut(acc.map, f, model)])

\* The loop of open(), lines 105-116: the files of rest in order; those of ok
\* are the ones osgDB::readNodeFile loads.
RECURSIVE openLoop(_, _, _)
openLoop(rest, ok, acc) ==
    IF rest = {} THEN acc
    ELSE LET f == Min(rest)
             model == readNodeFile(f, Range(acc.map))
         IN  IF f \in ok
             THEN openLoop(rest \ {f}, ok,
                           [scene |-> addChild(acc.scene, model),
                            map |-> MapPut(acc.map, f, model)])
             ELSE openLoop(rest \ {f}, ok, acc)

\* the sets of listed files whose load may succeed in open()
OpenOutcomes == {o \in SUBSET readMasterFile : Cardinality(o) <= MaxNodes}

\* MasterOperation::open, lines 101-119: what it leaves in the group and in
\* the map, and the value it returns
open(group, existing, ok) ==
    LET r == openLoop(readMasterFile, ok, [scene |-> group, map |-> existing])
    IN  [scene |-> r.scene, map |-> r.map, ret |-> TRUE]

\* masterOperation->open(scene.get()), line 700; main drops the value
MainOpen ==
    /\ Alive
    /\ mpc = "open"
    /\ \E ok \in OpenOutcomes :
         LET r == open(scene, _existingFilenameNodeMap, ok)
         IN  /\ scene' = r.scene
             /\ _existingFilenameNodeMap' = r.map
    /\ mpc' = "check"
    /\ UNCHANGED <<envVars, _nodesToRemove, _nodesToAdd, _mutex,
                   _updatesMergedBlock, barrierVars, started, done, wpc,
                   localVars, gtVars, retry>>
    /\ UNCHANGED filterVars

\* lines 703-709: main returns when the scene has no child
MainCheck ==
    /\ Alive
    /\ mpc = "check"
    /\ mpc' = IF BagCardinality(scene) = 0 THEN "returned" ELSE "startThread"
    /\ UNCHANGED <<envVars, scene, sharedVars, _mutex, _updatesMergedBlock,
                   barrierVars, started, done, wpc, localVars, gtVars, retry>>
    /\ UNCHANGED filterVars

\* lines 713-719: the operation thread is started and given the operation
MainStartThread ==
    /\ Alive
    /\ mpc = "startThread"
    /\ started' = TRUE
    /\ mpc' = "realize"
    /\ UNCHANGED <<envVars, scene, sharedVars, _mutex, _updatesMergedBlock,
                   barrierVars, done, wpc, localVars, gtVars, retry>>
    /\ UNCHANGED filterVars

\* lines 722-725: viewer.realize(), then the compile contexts if asked for
MainRealize ==
    /\ Alive
    /\ mpc = "realize"
    /\ mpc' = IF createBackgroundThreadsForCompiling THEN "createThread"
                                                     ELSE "frame"
    /\ UNCHANGED <<envVars, scene, sharedVars, _mutex, _updatesMergedBlock,
                   barrierVars, started, done, wpc, localVars, gtVars, retry>>
    /\ UNCHANGED filterVars

\* lines 731-743, one pass of the loop: the next context gets its graphics
\* thread, which is started
MainCreateGraphicsThread ==
    /\ Alive
    /\ mpc = "createThread"
    /\ gtCreated' = gtCreated \cup {Min(Contexts \ gtCreated)}
    /\ mpc' = IF Contexts \ gtCreated' = {} THEN "frame" ELSE "createThread"
    /\ UNCHANGED <<envVars, scene, sharedVars, _mutex, _updatesMergedBlock,
                   barrierVars, started, done, wpc, localVars, gtQueue,
                   gtInBarrier, compiled, retry>>
    /\ UNCHANGED filterVars

\* MainUpdateLock without the ScopedLock of line 242
MainUpdateLock_noLock ==
    /\ Alive
    /\ mpc = "frame"
    /\ mpc' = "update"
    /\ UNCHANGED <<envVars, scene, sharedVars, _mutex, _updatesMergedBlock,
                   barrierVars, started, done, wpc, localVars, gtVars, retry>>
    /\ UNCHANGED filterVars

\* line 242: update() takes _mutex (lines 750-754 of the frame come first)
MainUpdateLock ==
    /\ Alive
    /\ mpc = "frame"
    /\ _mutex = "free"
    /\ _mutex' = "main"
    /\ mpc' = "update"
    /\ UNCHANGED <<envVars, scene, sharedVars, _updatesMergedBlock,
                   barrierVars, started, done, wpc, localVars, gtVars, retry>>
    /\ UNCHANGED filterVars

\* removeLoop without the erase of line 256
RECURSIVE removeLoop_noErase(_, _)
removeLoop_noErase(rest, acc) ==
    IF rest = {} THEN acc
    ELSE LET f == Min(rest)
         IN  IF f \in DOMAIN acc.map
             THEN removeLoop_noErase(rest \ {f},
                                     [scene |-> removeChild(acc.scene, acc.map[f]),
                                      map |-> acc.map])
             ELSE removeLoop_noErase(rest \ {f}, acc)

\* The loop of lines 246-258 over the filenames of rest in order.
RECURSIVE removeLoop(_, _)
removeLoop(rest, acc) ==
    IF rest = {} THEN acc
    ELSE LET f == Min(rest)
         IN  IF f \in DOMAIN acc.map
             THEN removeLoop(rest \ {f},
                             [scene |-> removeChild(acc.scene, acc.map[f]),
                              map |-> MapErase(acc.map, f)])
             ELSE removeLoop(rest \ {f}, acc)

\* The loop of lines 265-271 over the entries of toAdd whose keys are in rest.
RECURSIVE addLoop(_, _, _)
addLoop(rest, toAdd, acc) ==
    IF rest = {} THEN acc
    ELSE LET f == Min(rest)
         IN  addLoop(rest \ {f}, toAdd,
                     [scene |-> addChild(acc.scene, toAdd[f]),
                      map |-> MapPut(acc.map, f, toAdd[f])])

\* lines 244-278, all of it inside the lock: the removals, the additions,
\* the release of the block, and the ScopedLock's destructor
MainUpdate ==
    /\ Alive
    /\ mpc = "update"
    /\ LET removed == removeLoop(_nodesToRemove,
                                 [scene |-> scene, map |-> _existingFilenameNodeMap])
           added == addLoop(DOMAIN _nodesToAdd, _nodesToAdd, removed)
       IN  /\ scene' = added.scene
           /\ _existingFilenameNodeMap' = added.map
    /\ _nodesToRemove' = {}
    /\ _nodesToAdd' = EmptyMap
    /\ _updatesMergedBlock' = TRUE
    /\ _mutex' = "free"
    /\ mpc' = "frame"
    /\ UNCHANGED <<envVars, barrierVars, started, done, wpc, localVars, gtVars,
                   retry>>
    /\ UNCHANGED filterVars

\* line 748: viewer.done() ends the loop; line 760 drops the operation thread,
\* whose cancel() sets _done
MainDone ==
    /\ Alive
    /\ mpc = "frame"
    /\ done' = TRUE
    /\ mpc' = "cancel"
    /\ UNCHANGED <<envVars, scene, sharedVars, _mutex, _updatesMergedBlock,
                   barrierVars, started, wpc, localVars, gtVars, retry>>
    /\ UNCHANGED filterVars

\* MasterOperation::release(), lines 282-286, called by cancel() on the running
\* operation until the thread has stopped.  _barrier.release() is
\* osg::ref_ptr::release(): it gives up the pointer and leaves the
\* BarrierOperation as it is.
release ==
    /\ Alive
    /\ mpc = "cancel"
    /\ wpc \notin {"idle", "terminated"}
    /\ _updatesMergedBlock' = TRUE
    /\ _barrier' = "null"
    /\ UNCHANGED <<envVars, mpc, scene, sharedVars, _mutex, barrierSize,
                   barrierCnt, started, done, wpc, localVars, gtVars, retry>>
    /\ UNCHANGED filterVars

\* cancel() returns once the operation thread has stopped
MainJoin ==
    /\ Alive
    /\ mpc = "cancel"
    /\ wpc = "terminated"
    /\ mpc' = "returned"
    /\ UNCHANGED <<envVars, scene, sharedVars, _mutex, _updatesMergedBlock,
                   barrierVars, started, done, wpc, localVars, gtVars, retry>>
    /\ UNCHANGED filterVars

----------------------------------------------------------------------------
\* MasterOperation::operator(), run by the operation thread

\* what the destructors of operator()'s locals leave behind
ClearLocals ==
    /\ files' = {}
    /\ newFiles' = {}
    /\ removedFiles' = {}
    /\ nodesToAdd' = EmptyMap
    /\ threads' = {}
    /\ requiresBarrier' = FALSE
    /\ requiresBlock' = FALSE
    /\ toLoad' = {}

\* lines 126-127: the operation thread runs the operation (kept in its queue,
\* keep = true) unless it has been told to stop
WorkerRead ==
    /\ Alive
    /\ wpc = "idle"
    /\ started
    /\ ~done
    /\ files' = readMasterFile
    /\ wpc' = "lockDiff"
    /\ UNCHANGED <<envVars, mpc, scene, sharedVars, _mutex, _updatesMergedBlock,
                   barrierVars, started, done, newFiles, removedFiles,
                   nodesToAdd, threads, requiresBarrier, requiresBlock, toLoad,
                   gtVars, retry>>
    /\ UNCHANGED filterVars

\* the operation thread leaves its loop once _done is set
WorkerTerminate ==
    /\ Alive
    /\ wpc = "idle"
    /\ started
    /\ done
    /\ wpc' = "terminated"
    /\ UNCHANGED <<envVars, mpc, scene, sharedVars, _mutex, _updatesMergedBlock,
                   barrierVars, started, done, localVars, gtVars, retry>>
    /\ UNCHANGED filterVars

\* line 136
WorkerLockDiff ==
    /\ Alive
    /\ wpc = "lockDiff"
    /\ _mutex = "free"
    /\ _mutex' = "worker"
    /\ wpc' = "diff"
    /\ UNCHANGED <<envVars, mpc, scene, sharedVars, _updatesMergedBlock,
                   barrierVars, started, done, localVars, gtVars, retry>>
    /\ UNCHANGED filterVars

\* newFilesLoop with the test of line 142 inverted
RECURSIVE newFilesLoop_inverted(_, _, _)
newFilesLoop_inverted(rest, existing, acc) ==
    IF rest = {} THEN acc
    ELSE LET fitr == Min(rest)
         IN  newFilesLoop_inverted(rest \ {fitr}, existing,
                                   IF fitr \in DOMAIN existing THEN acc \cup {fitr}
                                                               ELSE acc)

\* The loop of lines 138-143 over the filenames of rest in order.
RECURSIVE newFilesLoop(_, _, _)
newFilesLoop(rest, existing, acc) ==
    IF rest = {} THEN acc
    ELSE LET fitr == Min(rest)
         IN  newFilesLoop(rest \ {fitr}, existing,
                          IF fitr \notin DOMAIN existing THEN acc \cup {fitr}
                                                         ELSE acc)

\* The loop of lines 145-153 over the keys of rest in order.
RECURSIVE removedFilesLoop(_, _, _)
removedFilesLoop(rest, listed, acc) ==
    IF rest = {} THEN acc
    ELSE LET litr == Min(rest)
         IN  removedFilesLoop(rest \ {litr}, listed,
                              IF litr \notin listed THEN acc \cup {litr}
                                                    ELSE acc)

\* WorkerDiff with a lock that lasts to the end of operator()
WorkerDiff_keepsLock ==
    /\ Alive
    /\ wpc = "diff"
    /\ newFiles' = newFilesLoop(files, _existingFilenameNodeMap, newFiles)
    /\ removedFiles' = removedFilesLoop(DOMAIN _existingFilenameNodeMap, files,
                                        removedFiles)
    /\ retry' = {}
    /\ wpc' = IF newFiles' # {} THEN "collectThreads" ELSE "handOff"
    /\ UNCHANGED <<envVars, mpc, scene, sharedVars, _mutex, _updatesMergedBlock,
                   barrierVars, started, done, files, nodesToAdd, threads,
                   requiresBarrier, requiresBlock, toLoad, gtVars>>
    /\ UNCHANGED filterVars

\* lines 138-154 inside the lock, the end of the ScopedLock's block, and the
\* test of line 159
WorkerDiff ==
    /\ Alive
    /\ wpc = "diff"
    /\ newFiles' = newFilesLoop(files, _existingFilenameNodeMap, newFiles)
    /\ removedFiles' = removedFilesLoop(DOMAIN _existingFilenameNodeMap, files,
                                        removedFiles)
    /\ retry' = {}
    /\ _mutex' = "free"
    /\ wpc' = IF newFiles' # {} THEN "collectThreads" ELSE "handOff"
    /\ UNCHANGED <<envVars, mpc, scene, sharedVars, _updatesMergedBlock,
                   barrierVars, started, done, files, nodesToAdd, threads,
                   requiresBarrier, requiresBlock, toLoad, gtVars>>
    /\ UNCHANGED filterVars

\* lines 162-172: the graphics threads of the compile contexts that have one
WorkerCollectThreads ==
    /\ Alive
    /\ wpc = "collectThreads"
    /\ threads' = gtCreated
    /\ requiresBarrier' = FALSE
    /\ toLoad' = newFiles
    /\ wpc' = "load"
    /\ UNCHANGED <<envVars, mpc, scene, sharedVars, _mutex, _updatesMergedBlock,
                   barrierVars, started, done, files, newFiles, removedFiles,
                   nodesToAdd, requiresBlock, gtVars, retry>>
    /\ UNCHANGED filterVars

\* (*gitr)->add(op) for every collected thread, lines 186-192 and 201-206
addToThreads(queues, ts, op) ==
    [c \in Contexts |-> IF c \in ts THEN Append(queues[c], op) ELSE queues[c]]

\* where the worker goes after one pass of the loop of lines 174-194: the
\* loop again, or past it with the test of line 196
afterLoad(rest, barrierNeeded) ==
    IF rest # {} THEN "load"
    ELSE IF barrierNeeded THEN "createBarrier" ELSE "handOff"

\* WorkerLoadOk asking for the barrier whether or not a thread was collected
WorkerLoadOk_alwaysBarrier ==
    /\ Alive
    /\ wpc = "load"
    /\ CanLoad
    /\ LET nitr == Min(toLoad)
           loadedModel == readNodeFile(nitr, NodesInUse)
       IN  /\ nodesToAdd' = MapPut(nodesToAdd, nitr, loadedModel)
           /\ gtQueue' = addToThreads(gtQueue, threads, loadedModel)
           /\ requiresBarrier' = TRUE
           /\ toLoad' = toLoad \ {nitr}
    /\ wpc' = afterLoad(toLoad', requiresBarrier')
    /\ UNCHANGED <<envVars, mpc, scene, sharedVars, _mutex, _updatesMergedBlock,
                   barrierVars, started, done, files, newFiles, removedFiles,
                   threads, requiresBlock, gtCreated, gtInBarrier,
                   compiled, retry>>
    /\ UNCHANGED filterVars

\* lines 178-193, readNodeFile returning a model
WorkerLoadOk ==
    /\ Alive
    /\ wpc = "load"
    /\ CanLoad
    /\ LET nitr == Min(toLoad)
           loadedModel == readNodeFile(nitr, NodesInUse)
       IN  /\ nodesToAdd' = MapPut(nodesToAdd, nitr, loadedModel)
           /\ gtQueue' = addToThreads(gtQueue, threads, loadedModel)
           /\ requiresBarrier' = (requiresBarrier \/ threads # {})
           /\ toLoad' = toLoad \ {nitr}
    /\ wpc' = afterLoad(toLoad', requiresBarrier')
    /\ UNCHANGED <<envVars, mpc, scene, sharedVars, _mutex, _updatesMergedBlock,
                   barrierVars, started, done, files, newFiles, removedFiles,
                   threads, requiresBlock, gtCreated, gtInBarrier,
                   compiled, retry>>
    /\ UNCHANGED filterVars

\* lines 178-180, readNodeFile returning null
WorkerLoadFail ==
    /\ Alive
    /\ wpc = "load"
    /\ toLoad' = toLoad \ {Min(toLoad)}
    /\ wpc' = afterLoad(toLoad', requiresBarrier)
    /\ UNCHANGED <<envVars, mpc, scene, sharedVars, _mutex, _updatesMergedBlock,
                   barrierVars, started, done, files, newFiles, removedFiles,
                   nodesToAdd, threads, requiresBarrier, requiresBlock, gtVars, retry>>
    /\ UNCHANGED filterVars

\* WorkerCreateBarrier with a barrier for the graphics threads alone
WorkerCreateBarrier_threadsOnly ==
    /\ Alive
    /\ wpc = "createBarrier"
    /\ _barrier' = "valid"
    /\ barrierSize' = Cardinality(threads)
    /\ barrierCnt' = 0
    /\ gtQueue' = addToThreads(gtQueue, threads, BarrierOp)
    /\ wpc' = "barrierBlock"
    /\ UNCHANGED <<envVars, mpc, scene, sharedVars, _mutex, _updatesMergedBlock,
                   started, done, localVars, gtCreated, gtInBarrier,
                   compiled, retry>>
    /\ UNCHANGED filterVars

\* lines 198-206
WorkerCreateBarrier ==
    /\ Alive
    /\ wpc = "createBarrier"
    /\ _barrier' = "valid"
    /\ barrierSize' = Cardinality(threads) + 1
    /\ barrierCnt' = 0
    /\ gtQueue' = addToThreads(gtQueue, threads, BarrierOp)
    /\ wpc' = "barrierBlock"
    /\ UNCHANGED <<envVars, mpc, scene, sharedVars, _mutex, _updatesMergedBlock,
                   started, done, localVars, gtCreated, gtInBarrier,
                   compiled, retry>>
    /\ UNCHANGED filterVars

\* OpenThreads::Barrier::block() reached by one more participant: the last
\* one resets the count and wakes the others
barrierComplete == barrierCnt + 1 = barrierSize

\* where the worker is after somebody's arrival at the barrier.  A worker
\* returning from block() after release() gave up the last owned reference
\* returns into an object the graphics threads may have deleted.
WorkerAfterWake ==
    IF _barrier = "null" THEN {"handOff", "crashed"} ELSE {"handOff"}

\* line 209: _barrier->block().  release() may have reset _barrier in between.
WorkerBarrierBlock ==
    /\ Alive
    /\ wpc = "barrierBlock"
    /\ IF _barrier = "null"
       THEN /\ wpc' = "crashed"
            /\ UNCHANGED <<barrierCnt, gtInBarrier>>
       ELSE IF barrierComplete
            THEN /\ barrierCnt' = 0
                 /\ gtInBarrier' = {}
                 /\ wpc' = "handOff"
            ELSE /\ barrierCnt' = barrierCnt + 1
                 /\ wpc' = "barrierWait"
                 /\ UNCHANGED gtInBarrier
    /\ UNCHANGED <<envVars, mpc, scene, sharedVars, _mutex, _updatesMergedBlock,
                   _barrier, barrierSize, started, done, localVars, gtCreated, gtQueue, compiled, retry>>
    /\ UNCHANGED filterVars

\* the test of line 218
changeSetReady == removedFiles # {} \/ nodesToAdd # EmptyMap

\* lines 213-220
WorkerLockSwap ==
    /\ Alive
    /\ wpc = "handOff"
    /\ changeSetReady
    /\ _mutex = "free"
    /\ _mutex' = "worker"
    /\ requiresBlock' = FALSE
    /\ wpc' = "swap"
    /\ UNCHANGED <<envVars, mpc, scene, sharedVars, _updatesMergedBlock,
                   barrierVars, started, done, files, newFiles, removedFiles,
                   nodesToAdd, threads, requiresBarrier, toLoad, gtVars, retry>>
    /\ UNCHANGED filterVars

\* WorkerSwap as it would be if the worker merged the loaded nodes itself
WorkerSwap_mergesItself ==
    /\ Alive
    /\ wpc = "swap"
    /\ _nodesToRemove' = removedFiles
    /\ removedFiles' = _nodesToRemove
    /\ _nodesToAdd' = nodesToAdd
    /\ nodesToAdd' = _nodesToAdd
    /\ _existingFilenameNodeMap' =
          [k \in (DOMAIN _existingFilenameNodeMap) \cup DOMAIN nodesToAdd |->
              IF k \in DOMAIN nodesToAdd THEN nodesToAdd[k]
                                         ELSE _existingFilenameNodeMap[k]]
    /\ requiresBlock' = TRUE
    /\ _mutex' = "free"
    /\ wpc' = "block"
    /\ compiled' = {}
    /\ UNCHANGED <<envVars, mpc, scene, _updatesMergedBlock, barrierVars,
                   started, done, files, newFiles, threads, requiresBarrier,
                   toLoad, gtCreated, gtQueue, gtInBarrier, retry>>
    /\ UNCHANGED filterVars

\* lines 221-224
WorkerSwap ==
    /\ Alive
    /\ wpc = "swap"
    /\ _nodesToRemove' = removedFiles
    /\ removedFiles' = _nodesToRemove
    /\ _nodesToAdd' = nodesToAdd
    /\ nodesToAdd' = _nodesToAdd
    /\ requiresBlock' = TRUE
    /\ _mutex' = "free"
    /\ wpc' = "block"
    /\ compiled' = {}
    /\ UNCHANGED <<envVars, mpc, scene, _existingFilenameNodeMap,
                   _updatesMergedBlock, barrierVars, started, done, files,
                   newFiles, threads, requiresBarrier, toLoad, gtCreated, gtQueue, gtInBarrier, retry>>
    /\ UNCHANGED filterVars

\* OpenThreads::Block::block() returns once _released is set; nothing in this
\* program resets it
blockReturns == _updatesMergedBlock

\* lines 228-231 and the return
WorkerBlock ==
    /\ Alive
    /\ wpc = "block"
    /\ blockReturns
    /\ ClearLocals
    /\ wpc' = "idle"
    /\ UNCHANGED <<envVars, mpc, scene, sharedVars, _mutex, _updatesMergedBlock,
                   barrierVars, started, done, gtVars, retry>>
    /\ UNCHANGED filterVars

\* lines 213-218 and 232-237: nothing to hand off, the yield and the return
WorkerYield ==
    /\ Alive
    /\ wpc = "handOff"
    /\ ~changeSetReady
    /\ ClearLocals
    /\ retry' = newFiles
    /\ wpc' = "idle"
    /\ UNCHANGED <<envVars, mpc, scene, sharedVars, _mutex, _updatesMergedBlock,
                   barrierVars, started, done, gtVars>>
    /\ UNCHANGED filterVars

----------------------------------------------------------------------------
\* The graphics threads of the compile contexts

\* a GLObjectsOperation (keep = false) is taken from the queue and run
GraphicsThreadCompile(c) ==
    /\ Alive
    /\ c \in gtCreated
    /\ c \notin gtInBarrier
    /\ gtQueue[c] # <<>>
    /\ Head(gtQueue[c]) # BarrierOp
    /\ compiled' = compiled \cup {<<c, Head(gtQueue[c])>>}
    /\ gtQueue' = [gtQueue EXCEPT ![c] = Tail(@)]
    /\ UNCHANGED <<envVars, mpc, scene, sharedVars, _mutex, _updatesMergedBlock,
                   barrierVars, started, done, wpc, localVars, gtCreated, gtInBarrier, retry>>
    /\ UNCHANGED filterVars

\* the BarrierOperation (keep = false) is taken from the queue and run: block()
GraphicsThreadBarrier(c) ==
    /\ Alive
    /\ c \in gtCreated
    /\ c \notin gtInBarrier
    /\ gtQueue[c] # <<>>
    /\ Head(gtQueue[c]) = BarrierOp
    /\ gtQueue' = [gtQueue EXCEPT ![c] = Tail(@)]
    /\ IF barrierComplete
       THEN /\ barrierCnt' = 0
            /\ gtInBarrier' = {}
            /\ IF wpc = "barrierWait" THEN wpc' \in WorkerAfterWake
                                      ELSE UNCHANGED wpc
       ELSE /\ barrierCnt' = barrierCnt + 1
            /\ gtInBarrier' = gtInBarrier \cup {c}
            /\ UNCHANGED wpc
    /\ UNCHANGED <<envVars, mpc, scene, sharedVars, _mutex, _updatesMergedBlock,
                   _barrier, barrierSize, started, done, localVars, gtCreated, compiled, retry>>
    /\ UNCHANGED filterVars

----------------------------------------------------------------------------
\* The environment: somebody rewrites, removes or restores the master file.
\* Only readMasterFile looks at the file, at the start of a poll, so an edit
\* made while a poll is running shows as one made right before the next poll,
\* and one made before the operation thread is started as another first
\* content.

EditMaster ==
    /\ Alive
    /\ edits < MaxEdits
    /\ started
    /\ wpc = "idle"
    /\ ~done
    /\ \E opens \in BOOLEAN :
         \E listed \in (IF opens THEN SUBSET Filenames ELSE {{}}) :
            /\ <<opens, listed>> # <<masterOpens, master>>
            /\ masterOpens' = opens
            /\ master' = listed
    /\ edits' = edits + 1
    /\ UNCHANGED <<createBackgroundThreadsForCompiling, mpc, scene, sharedVars,
                   _mutex, _updatesMergedBlock, barrierVars, started, done, wpc,
                   localVars, gtVars, retry>>
    /\ UNCHANGED filterVars

----------------------------------------------------------------------------
\* FilterHandler

\* what a call of handle() gives: the value returned and the technique's
\* three parameters after it
HandleResult(ret, matrix, width, bias) ==
    [ret |-> ret, matrix |-> matrix, width |-> width, bias |-> bias]

\* handle with the switch on the event type left out
handle_anyEventType(gtValid, matrix, width, bias, e) ==
    IF ~gtValid THEN HandleResult(FALSE, matrix, width, bias)
    ELSE IF e.key = "g" THEN HandleResult(TRUE, "GAUSSIAN", width, bias)
    ELSE IF e.key = "s" THEN HandleResult(TRUE, "SMOOTH", width, bias)
    ELSE IF e.key = "S" THEN HandleResult(TRUE, "SHARPEN", width, bias)
    ELSE IF e.key = "+" THEN HandleResult(TRUE, matrix, width + 1, bias)
    ELSE IF e.key = "-" THEN HandleResult(TRUE, matrix, width - 1, bias)
    ELSE IF e.key = ">" THEN HandleResult(TRUE, matrix, width, bias + 1)
    ELSE IF e.key = "<" THEN HandleResult(TRUE, matrix, width, bias - 1)
    ELSE HandleResult(FALSE, matrix, width, bias)

\* FilterHandler::handle, lines 306-363, called with the event e
handle(gtValid, matrix, width, bias, e) ==
    IF ~gtValid THEN HandleResult(FALSE, matrix, width, bias)
    ELSE IF e.type = "KEYDOWN"
    THEN IF e.key = "g" THEN HandleResult(TRUE, "GAUSSIAN", width, bias)
         ELSE IF e.key = "s" THEN HandleResult(TRUE, "SMOOTH", width, bias)
         ELSE IF e.key = "S" THEN HandleResult(TRUE, "SHARPEN", width, bias)
         ELSE IF e.key = "+" THEN HandleResult(TRUE, matrix, width + 1, bias)
         ELSE IF e.key = "-" THEN HandleResult(TRUE, matrix, width - 1, bias)
         ELSE IF e.key = ">" THEN HandleResult(TRUE, matrix, width, bias + 1)
         ELSE IF e.key = "<" THEN HandleResult(TRUE, matrix, width, bias - 1)
         ELSE HandleResult(FALSE, matrix, width, bias)
    ELSE HandleResult(FALSE, matrix, width, bias)

\* the viewer calls handle() with some event
FilterHandle ==
    \E type \in EventTypes : \E key \in Keys :
       LET e == [type |-> type, key |-> key]
           r == handle(_gt, filterMatrix, filterWidth, filterBias, e)
       IN  /\ r.width \in FilterSteps
           /\ r.bias \in FilterSteps
           /\ ea' = e
           /\ handled' = r.ret
           /\ filterMatrix' = r.matrix
           /\ filterWidth' = r.width
           /\ filterBias' = r.bias
           /\ UNCHANGED <<_gt, programVars>>

\* the technique is deleted, which resets the observer_ptr
TechniqueDeleted ==
    /\ _gt
    /\ _gt' = FALSE
    /\ UNCHANGED <<filterMatrix, filterWidth, filterBias, ea, handled,
                   programVars>>

\* the program as the handler finds it: a terrain, no master file
InitHandlerOnly ==
    /\ Init
    /\ ~masterOpens
    /\ ~createBackgroundThreadsForCompiling
    /\ scene = SetToBag({TerrainNode})

NextFilterHandler == FilterHandle \/ TechniqueDeleted

SpecFilterHandler == InitHandlerOnly /\ [][NextFilterHandler]_vars

----------------------------------------------------------------------------
Main ==
    \/ MainOpen
    \/ MainCheck
    \/ MainStartThread
    \/ MainRealize
    \/ MainCreateGraphicsThread
    \/ MainUpdateLock
    \/ MainUpdate
    \/ MainDone
    \/ release
    \/ MainJoin

Worker ==
    \/ WorkerRead
    \/ WorkerTerminate
    \/ WorkerLockDiff
    \/ WorkerDiff
    \/ WorkerCollectThreads
    \/ WorkerLoadOk
    \/ WorkerLoadFail
    \/ WorkerCreateBarrier
    \/ WorkerBarrierBlock
    \/ WorkerLockSwap
    \/ WorkerSwap
    \/ WorkerBlock
    \/ WorkerYield

GraphicsThreads ==
    \E c \in Contexts : GraphicsThreadCompile(c) \/ GraphicsThreadBarrier(c)

Next == Main \/ Worker \/ GraphicsThreads \/ EditMaster

Spec == Init /\ [][Next]_vars

TypeOK ==
    /\ master \subseteq Filenames
    /\ DOMAIN _existingFilenameNodeMap \subseteq Filenames
    /\ Range(_existingFilenameNodeMap) \subseteq NodeIds
    /\ _mutex \in {"free", "worker", "main"}
    /\ barrierCnt \in 0..MaxContexts + 1

----------------------------------------------------------------------------
\* Properties

\* a change set has been handed off and update() has not merged all of it
ChangeSetPending == _nodesToRemove # {} \/ _nodesToAdd # EmptyMap

\* C1: blocking hand-off.  Once a run of operator() has swapped a non-empty
\* change set into _nodesToRemove/_nodesToAdd, the worker begins no other
\* poll (it does not read the master file again) before update() has merged
\* that change set: no poll begins while a change set is pending.
C1_BlockingHandOff == [][WorkerRead => ~ChangeSetPending]_vars

\* C2: double-buffered hand-off.  Whenever the worker executes the swap of
\* lines 221-222, _nodesToRemove and _nodesToAdd are both empty, so that the
\* swap discards nothing that was handed off and not merged.
C2_SwapFindsBuffersEmpty == wpc = "swap" => ~ChangeSetPending

\* C3: the merge happens on the main thread only.  No step of the worker
\* changes the scene's children or _existingFilenameNodeMap; they change only
\* in open(), which runs before the operation thread is started, and in
\* update().
C3_MergeOnlyOnMainThread ==
    [][/\ Worker => UNCHANGED <<scene, _existingFilenameNodeMap>>
       /\ (scene' # scene \/ _existingFilenameNodeMap' # _existingFilenameNodeMap)
            => \/ MainOpen /\ ~started
               \/ MainUpdate]_vars

\* the worker holds a loaded node that is in neither the scene nor the map
C3_Witness ==
    /\ wpc = "block"
    /\ _nodesToAdd # EmptyMap
    /\ Range(_nodesToAdd) \cap BagToSet(scene) = {}
    /\ Range(_nodesToAdd) \cap Range(_existingFilenameNodeMap) = {}

\* C4: mutex-guarded diff.  The two loops run with _mutex held by the worker,
\* and when the lock is given back newFiles is exactly the listed filenames
\* that are no key of _existingFilenameNodeMap, removedFiles exactly the keys
\* that are not listed, and the two are disjoint.
C4_MutexGuardedDiff ==
    /\ [](wpc = "diff" => _mutex = "worker")
    /\ [][WorkerDiff =>
            /\ newFiles' = files \ DOMAIN _existingFilenameNodeMap
            /\ removedFiles' = (DOMAIN _existingFilenameNodeMap) \ files
            /\ newFiles' \cap removedFiles' = {}]_vars

\* a diff that found both a new and a removed file
C4_Witness ==
    /\ wpc = "collectThreads"
    /\ newFiles # {}
    /\ removedFiles # {}

\* the compile operations of this poll come before the barrier in a queue
CompilesBeforeBarrier(q) ==
    \A i \in 1..Len(q) : \A j \in 1..Len(q) :
        (q[i] = BarrierOp /\ q[j] \in Range(nodesToAdd)) => j < i

\* C5: barrier-synchronized compile.  With at least one graphics thread
\* collected and at least one file loaded, the barrier is made for the
\* threads plus the worker, every queue holds the poll's compile operations
\* in front of the barrier operation, and the worker is at the hand-off only
\* after every collected thread has run the compile operation of every node
\* loaded in this poll.
C5_CompiledBeforeHandOff ==
    (threads # {} /\ nodesToAdd # EmptyMap) =>
        /\ wpc \in {"barrierBlock", "barrierWait"} =>
              /\ barrierSize = Cardinality(threads) + 1
              /\ \A c \in threads : CompilesBeforeBarrier(gtQueue[c])
        /\ wpc \in {"handOff", "swap"} =>
              \A c \in threads : \A n \in Range(nodesToAdd) : <<c, n>> \in compiled

\* the worker is about to hand off nodes that graphics threads had to compile
C5_Witness ==
    /\ wpc = "swap"
    /\ threads # {}
    /\ nodesToAdd # EmptyMap

WorkerAccessesShared == wpc \in {"diff", "swap"}

MainAccessesShared == mpc = "update"

\* C6: shared state is accessed under the mutex.  Once the operation thread
\* is started, the worker reads or writes _existingFilenameNodeMap,
\* _nodesToRemove and _nodesToAdd only while it holds _mutex, and so does
\* main; open() has returned before the thread is started; the two threads
\* are never both at an access.
C6_SharedStateUnderMutex ==
    /\ [](/\ (started /\ WorkerAccessesShared) => _mutex = "worker"
          /\ (started /\ MainAccessesShared) => _mutex = "main"
          /\ mpc = "open" => ~started
          /\ ~(WorkerAccessesShared /\ (MainAccessesShared \/ mpc = "open")))
    /\ [][(started /\ sharedVars' # sharedVars) =>
            \/ Worker /\ _mutex = "worker"
            \/ Main /\ _mutex = "main"]_vars

\* the worker waits for the mutex while update() merges a change set
C6_Witness ==
    /\ wpc = "lockDiff"
    /\ _mutex = "main"
    /\ mpc = "update"
    /\ _nodesToAdd # EmptyMap

\* the worker is between two polls, nothing is pending, update() is not
\* running and the keys of the map are the filenames the master file lists:
\* unless the master file is edited, every poll from here on finds nothing
\* new and nothing removed and every update() finds nothing to merge
Quiescent ==
    /\ started
    /\ ~done
    /\ wpc = "idle"
    /\ mpc = "frame"
    /\ ~ChangeSetPending
    /\ DOMAIN _existingFilenameNodeMap = readMasterFile

Converged ==
    /\ DOMAIN _existingFilenameNodeMap = readMasterFile
    /\ \A f \in DOMAIN _existingFilenameNodeMap :
          _existingFilenameNodeMap[f] \in BagToSet(scene)
    /\ \A n \in BagToSet(scene) \ {TerrainNode} : nodeFile(n) \in readMasterFile

\* C7: hot reload converges.  If the master file stays as it is and its
\* files load, the map's keys become the listed filenames, every listed
\* file's node is in the scene and no node of an unlisted file stays in it.
\* A quiescent state stays as it is for as long as the master file does, so
\* it has to be the converged state already.
C7_HotReloadConverges == Quiescent => Converged

\* C8: cancellation release.  After a call of release() the worker is held
\* neither by _updatesMergedBlock.block() nor by _barrier->block().
C8_ReleaseFreesWorker ==
    [][release => (_updatesMergedBlock' /\ wpc' # "barrierWait")]_vars

\* C9: the result of update().  update() holds _mutex throughout.  When it
\* returns both buffers are empty; every filename that was in _nodesToRemove
\* and was a key of the map has lost its node in the scene and its key
\* (removals come first, so this is before anything is added); every entry
\* that was in _nodesToAdd has its node in the scene and its binding in the
\* map; and _updatesMergedBlock is released.
C9_UpdateMergeResult ==
    /\ [](mpc = "update" => _mutex = "main")
    /\ [][MainUpdate =>
            /\ _nodesToRemove' = {}
            /\ _nodesToAdd' = EmptyMap
            /\ \A f \in _nodesToRemove \cap DOMAIN _existingFilenameNodeMap :
                  /\ _existingFilenameNodeMap[f] \notin BagToSet(scene')
                  /\ f \notin DOMAIN _existingFilenameNodeMap'
            /\ \A f \in _nodesToRemove \ DOMAIN _existingFilenameNodeMap :
                  f \in DOMAIN _existingFilenameNodeMap' => f \in DOMAIN _nodesToAdd
            /\ \A f \in DOMAIN _nodesToAdd :
                  /\ _nodesToAdd[f] \in BagToSet(scene')
                  /\ f \in DOMAIN _existingFilenameNodeMap'
                  /\ _existingFilenameNodeMap'[f] = _nodesToAdd[f]
            /\ _updatesMergedBlock'
            /\ _mutex = "main"]_vars

\* update() is about to merge a removal and an addition
C9_Witness ==
    /\ mpc = "update"
    /\ _nodesToRemove \cap DOMAIN _existingFilenameNodeMap # {}
    /\ _nodesToAdd # EmptyMap

\* every new file of this poll failed to load and no file was removed
AllLoadsFailed ==
    /\ wpc \in {"createBarrier", "barrierBlock", "barrierWait", "handOff", "swap"}
    /\ newFiles # {}
    /\ toLoad = {}
    /\ nodesToAdd = EmptyMap
    /\ removedFiles = {}

\* C10: load failure in the worker.  A failed load inserts nothing anywhere
\* and queues no compile operation.  A poll in which every new file failed
\* and nothing was removed makes no barrier, no swap and no block(), only
\* the yield, and leaves the shared state alone; the next poll reports the
\* files it still lists as new again.
C10_LoadFailure ==
    /\ [](AllLoadsFailed => (wpc = "handOff" /\ ~requiresBarrier))
    /\ [][/\ WorkerLoadFail =>
               UNCHANGED <<nodesToAdd, sharedVars, scene, gtQueue,
                           requiresBarrier, barrierVars>>
          /\ (Worker /\ AllLoadsFailed) =>
               (WorkerYield /\ UNCHANGED <<sharedVars, scene, barrierVars,
                                           _updatesMergedBlock, _mutex>>)
          /\ WorkerDiff => (retry \cap files) \subseteq newFiles']_vars

\* the poll has collected the graphics threads and found none
NoThreadsCollected ==
    /\ wpc \in {"load", "createBarrier", "barrierBlock", "barrierWait",
                "handOff", "swap"}
    /\ newFiles # {}
    /\ threads = {}

\* C11: no graphics threads, no barrier.  In a poll that collected no
\* graphics thread requiresBarrier stays false and the worker is never at the
\* creation of a barrier or waiting at one; none of its steps touches the
\* barrier or a thread's queue; when the last file is loaded the worker is
\* at the hand-off, and its swap puts the loaded nodes into _nodesToAdd.
C11_NoThreadsNoBarrier ==
    /\ [](NoThreadsCollected =>
            /\ ~requiresBarrier
            /\ wpc \notin {"createBarrier", "barrierBlock", "barrierWait"})
    /\ [][/\ (Worker /\ NoThreadsCollected) =>
                UNCHANGED <<barrierVars, gtQueue, gtInBarrier>>
          /\ (NoThreadsCollected /\ wpc = "load" /\ toLoad' = {}) =>
                wpc' = "handOff"
          /\ (WorkerSwap /\ NoThreadsCollected) => _nodesToAdd' = nodesToAdd]_vars

\* with --bt, a poll that ran before main created the threads hands off a
\* loaded node
C11_Witness ==
    /\ wpc = "swap"
    /\ createBackgroundThreadsForCompiling
    /\ newFiles # {}
    /\ threads = {}
    /\ nodesToAdd # EmptyMap

\* what C12 asks of open() called on group and existing when the files of ok
\* load and the other listed files do not
OpenResultOk(group, existing, ok) ==
    LET r == open(group, existing, ok)
    IN  /\ r.ret = TRUE
        /\ \A f \in ok :
              /\ f \in DOMAIN r.map
              /\ nodeFile(r.map[f]) = f
              /\ BagIn(r.map[f], r.scene)
        /\ \A f \in readMasterFile \ ok :
              /\ f \notin DOMAIN r.map
              /\ \A n \in BagToSet(r.scene) \ {TerrainNode} : nodeFile(n) # f
        /\ readMasterFile = {} => (r.scene = group /\ r.map = existing)

\* C12: open() initial load.  Whatever files load, after open() every listed
\* file that loaded has its node in the group and its binding in the map, a
\* file that failed is in neither, open() returns true, and with a master
\* file that does not open or lists nothing the group and the map are as
\* they were; the step main takes is one of these results.
C12_OpenInitialLoad ==
    [][MainOpen =>
         /\ \A ok \in OpenOutcomes :
               OpenResultOk(scene, _existingFilenameNodeMap, ok)
         /\ \E ok \in OpenOutcomes :
               /\ scene' = open(scene, _existingFilenameNodeMap, ok).scene
               /\ _existingFilenameNodeMap' =
                     open(scene, _existingFilenameNodeMap, ok).map]_vars

\* open() has returned with one listed file loaded and another one failed
C12_Witness ==
    /\ mpc = "check"
    /\ DOMAIN _existingFilenameNodeMap # {}
    /\ readMasterFile \ DOMAIN _existingFilenameNodeMap # {}

\* the children of the scene other than the terrain
ModelChildren == scene (-) SetToBag({TerrainNode})

\* C13: scene/map agreement.  Whenever nobody holds _mutex, the children of
\* the scene other than the terrain are exactly the nodes the map stores,
\* each once, and no two keys share a node.
C13_SceneMapAgreement ==
    _mutex = "free" =>
        /\ ModelChildren = SetToBag(Range(_existingFilenameNodeMap))
        /\ Cardinality(Range(_existingFilenameNodeMap))
              = Cardinality(DOMAIN _existingFilenameNodeMap)

\* C14: the render loop is never stalled by loading.  The worker holds
\* _mutex exactly while it is inside the diff or the swap, so never while it
\* reads the master file, loads a file, waits at the barrier or in
\* _updatesMergedBlock.block(); inside either section its next step waits
\* for nothing, and that step gives the mutex back.
C14_MutexOnlyInTwoSections ==
    /\ [](/\ _mutex = "worker" <=> wpc \in {"diff", "swap"}
          /\ wpc = "diff" => ENABLED WorkerDiff
          /\ wpc = "swap" => ENABLED WorkerSwap)
    /\ [][(Worker /\ _mutex = "worker") => _mutex' = "free"]_vars

\* the main loop is about to call update(), which has to wait: the worker is
\* inside the swap of a poll that loaded a file
C14_Witness ==
    /\ mpc = "frame"
    /\ _mutex = "worker"
    /\ wpc = "swap"
    /\ nodesToAdd # EmptyMap

HandledKeys == {"g", "s", "S", "+", "-", ">", "<"}

\* C15: FilterHandler::handle returns true exactly when the technique is
\* alive, the event is a KEYDOWN and the key is one of g s S + - > <; every
\* other call returns false and leaves matrix, width and bias as they were.
\* g, s and S set the matrix alone (GAUSSIAN, SMOOTH, SHARPEN), + and - move
\* the width alone (one factor of 1.1 up or down), > and < the bias alone
\* (0.1 up or down).
C15_FilterHandlerHandle ==
    [][FilterHandle =>
         /\ handled' <=> (_gt /\ ea'.type = "KEYDOWN" /\ ea'.key \in HandledKeys)
         /\ ~handled' => UNCHANGED <<filterMatrix, filterWidth, filterBias>>
         /\ (handled' /\ ea'.key \in {"g", "s", "S"}) =>
               /\ UNCHANGED <<filterWidth, filterBias>>
               /\ filterMatrix' = (CASE ea'.key = "g" -> "GAUSSIAN"
                                     [] ea'.key = "s" -> "SMOOTH"
                                     [] ea'.key = "S" -> "SHARPEN")
         /\ (handled' /\ ea'.key \in {"+", "-"}) =>
               /\ UNCHANGED <<filterMatrix, filterBias>>
               /\ filterWidth' = filterWidth + (IF ea'.key = "+" THEN 1 ELSE -1)
         /\ (handled' /\ ea'.key \in {">", "<"}) =>
               /\ UNCHANGED <<filterMatrix, filterWidth>>
               /\ filterBias' = filterBias + (IF ea'.key = ">" THEN 1 ELSE -1)]_vars

\* a handled '<' after the matrix and the width had been changed
C15_Witness ==
    /\ handled
    /\ ea = [type |-> "KEYDOWN", key |-> "<"]
    /\ filterMatrix = "SHARPEN"
    /\ filterWidth = 1
    /\ filterBias = -1


====
